---- MODULE Spec2Model ----
(***************************************************************************)
(* A model of the RolePlay-Agent core: the tiered Memory store             *)
(* (roleplay/core/memory.py), the Agent that owns one store and handles    *)
(* messages under a per-agent asyncio.Lock (roleplay/core/agent.py), and   *)
(* the Scene that broadcasts a message to its characters under a deadline  *)
(* (roleplay/core/scene.py).                                               *)
(*                                                                         *)
(* Importances are kept in hundredths (0.7 is 70).  Fresh uuid4 values are *)
(* modelled by counters.  A Message is referred to by its message_id; the  *)
(* Message objects themselves live in the variable messages, because the   *)
(* code shares one object between the history and every agent's store.     *)
(***************************************************************************)
EXTENDS Integers, Sequences, FiniteSets, TLC

VARIABLES
    store,            \* a stand-alone Memory object (the Memory demo of memory.py)
    lastAdd,          \* what the last Memory.add_message call on store did
    characters,       \* Scene.characters: role name -> agent (None when absent)
    dialogue_history, \* Scene.dialogue_history: message ids
    messages,         \* the Message objects created so far, by message id
    agents,           \* the Agent objects: state, context, memory, _state_lock
    tasks,            \* the receive_message invocations, by <<broadcast, agent>>
    bcasts,           \* the broadcast_dialogue calls
    arrival,          \* per agent: the broadcasts whose receive_message was invoked, in order
    entered,          \* per agent: the broadcasts whose receive_message got the lock, in order
    stops,            \* how many times a caller has set an agent's state to STOPPED
    config,           \* Scene.config, fixed when the scene is constructed
    lastCall,         \* what the last add_character / remove_character call did
    event_handlers,   \* Scene.event_handlers: event -> the handlers registered, in order
    handled           \* the handlers the last _trigger_event called, in order

memVars == <<store, lastAdd>>

castVars == <<config, lastCall, event_handlers, handled>>

sceneVars == <<characters, dialogue_history, messages, agents, tasks, bcasts,
               arrival, entered, stops, config, lastCall, event_handlers, handled>>

vars == <<store, lastAdd, characters, dialogue_history, messages, agents, tasks,
          bcasts, arrival, entered, stops, config, lastCall, event_handlers, handled>>

None == "None"

\* ------------------------------------------------------------------------
\* Bounds of the model
\* ------------------------------------------------------------------------
MaxAdds == 6
MaxCalls == 3
MaxStops == 1
MaxHandlers == 2

\* ------------------------------------------------------------------------
\* Helpers on sequences
\* ------------------------------------------------------------------------
Range(s) == {s[i] : i \in DOMAIN s}

Ids(s) == {s[i].memory_id : i \in DOMAIN s}

Take(s, n) == SubSeq(s, 1, IF n < Len(s) THEN n ELSE Len(s))

Drop(s, n) == SubSeq(s, (IF n < Len(s) THEN n ELSE Len(s)) + 1, Len(s))

\* ------------------------------------------------------------------------
\* message.py
\* ------------------------------------------------------------------------
MessageTypes == {"chat", "emotion", "action", "thought", "system", "narrative"}

MessagePriorities == {"LOW", "NORMAL", "HIGH", "URGENT"}

\* The topics _extract_tags looks for; a message's content is modelled by the
\* set of these topics that occur in it.
CommonTopics == {"test", "plan"}

Message(id, sender, receiver, type, priority, content) ==
    [message_id |-> id, sender |-> sender, receiver |-> receiver,
     type |-> type, priority |-> priority, content |-> content,
     emotion_tags |-> <<>>, topic_tags |-> <<>>, thread_id |-> id]

\* ------------------------------------------------------------------------
\* memory.py : Memory
\* ------------------------------------------------------------------------
\* importance_threshold: float = 0.7
DefaultThreshold == 70

NewMemory(working_memory_limit, short_term_limit, long_term_limit, importance_threshold) ==
    [working_memory |-> <<>>, short_term |-> <<>>, long_term |-> <<>>,
     working_memory_limit |-> working_memory_limit,
     short_term_limit |-> short_term_limit,
     long_term_limit |-> long_term_limit,
     importance_threshold |-> importance_threshold,
     keyword_index |-> [k \in CommonTopics |-> <<>>],
     temporal_index |-> <<>>,
     type_index |-> [t \in MessageTypes |-> <<>>],
     memory_map |-> {},
     total_memories |-> 0,
     forgotten_memories |-> 0,
     consolidation_count |-> 0,
     memory_types |-> [t \in MessageTypes |-> 0],
     created |-> 0]

ExtractTags(content) == content \cap CommonTopics

\* an item whose update_access has been called once when its importance is
\* below 0.5
MemoryItemAccessed(id, message, importance) ==
    [memory_id |-> id,
     content |-> message.message_id,
     importance |-> importance,
     metadata |-> [sender |-> message.sender, receiver |-> message.receiver,
                   type |-> message.type, priority |-> message.priority],
     tags |-> ExtractTags(message.content),
     reference_count |-> IF importance < 50 THEN 1 ELSE 0]

MemoryItem(id, message, importance) ==
    [memory_id |-> id,
     content |-> message.message_id,
     importance |-> importance,
     metadata |-> [sender |-> message.sender, receiver |-> message.receiver,
                   type |-> message.type, priority |-> message.priority],
     tags |-> ExtractTags(message.content),
     reference_count |-> 0]

\* key of the sort in _consolidate_memories, times 1000:
\* importance * 0.7 + reference_count * 0.3
Score(x) == 7 * x.importance + 300 * x.reference_count

\* a descending sort that ranks the later of two equally scored items first
InsertDescLaterFirst(sorted, x) ==
    LET behind == {i \in 1 .. Len(sorted) : Score(sorted[i]) <= Score(x)}
        k == IF behind = {} THEN Len(sorted) + 1
             ELSE CHOOSE i \in behind : \A j \in behind : i <= j
    IN SubSeq(sorted, 1, k - 1) \o <<x>> \o SubSeq(sorted, k, Len(sorted))

\* list.sort(key=Score, reverse=True): stable, descending.
RECURSIVE InsertDesc(_, _)
InsertDesc(sorted, x) ==
    IF sorted = <<>> THEN <<x>>
    ELSE IF Score(sorted[1]) >= Score(x)
         THEN <<sorted[1]>> \o InsertDesc(Tail(sorted), x)
         ELSE <<x>> \o sorted

RECURSIVE SortDesc(_)
SortDesc(s) ==
    IF s = <<>> THEN <<>>
    ELSE InsertDesc(SortDesc(SubSeq(s, 1, Len(s) - 1)), s[Len(s)])

UpdateIndices(m, item) ==
    [m EXCEPT
       !.keyword_index = [k \in CommonTopics |->
                            IF k \in item.tags THEN Append(@[k], item.memory_id) ELSE @[k]],
       !.temporal_index = Append(@, item.memory_id),
       !.type_index[item.metadata.type] = Append(@, item.memory_id)]

\* Memory has no method _forget_least_important: the call at memory.py:126
\* raises AttributeError and changes nothing.
ForgetLeastImportant(m) == [mem |-> m, raised |-> TRUE]

\* a direct add that first makes room in a full working tier
AddToLongTermConsolidating(m, item) ==
    LET m0 == IF Len(m.working_memory) >= m.working_memory_limit
              THEN [m EXCEPT !.short_term = @ \o m.working_memory,
                             !.working_memory = <<>>]
              ELSE m
        m1 == [m0 EXCEPT !.long_term = Append(@, item)]
    IN IF Len(m1.long_term) > m1.long_term_limit
       THEN [mem |-> m1, raised |-> TRUE]
       ELSE [mem |-> m1, raised |-> FALSE]

AddToLongTerm(m, item) ==
    LET m1 == [m EXCEPT !.long_term = Append(@, item)]
    IN IF Len(m1.long_term) > m1.long_term_limit
       THEN ForgetLeastImportant(m1)
       ELSE [mem |-> m1, raised |-> FALSE]

ConsolidateMemories(m) ==
    LET sorted == SortDesc(m.short_term)
        half == m.short_term_limit \div 2
        important_memories == Take(sorted, half)
        forgotten_memories == Drop(sorted, half)
    IN [m EXCEPT !.long_term = @ \o important_memories,
                 !.forgotten_memories = @ + Len(forgotten_memories),
                 !.short_term = Take(sorted, half),
                 !.consolidation_count = @ + 1]

\* a bulk move that puts the working items in front of short_term
ConsolidateWorkingMemoryFront(m) ==
    LET m1 == [m EXCEPT !.short_term = m.working_memory \o @,
                        !.working_memory = <<>>]
    IN IF Len(m1.short_term) > m1.short_term_limit
       THEN ConsolidateMemories(m1)
       ELSE m1

ConsolidateWorkingMemory(m) ==
    LET m1 == [m EXCEPT !.short_term = @ \o m.working_memory,
                        !.working_memory = <<>>]
    IN IF Len(m1.short_term) > m1.short_term_limit
       THEN ConsolidateMemories(m1)
       ELSE m1

\* get_memory_summary: the counts it reports
GetMemorySummary(m) ==
    [working_memory_count |-> Len(m.working_memory),
     short_term_count |-> Len(m.short_term),
     long_term_count |-> Len(m.long_term),
     total_memories |-> m.total_memories,
     forgotten_memories |-> m.forgotten_memories,
     consolidation_count |-> m.consolidation_count]

\* Memory.add_message: the store after the call and whether the call raised.
AddMessage(m, message, importance) ==
    LET id == m.created + 1
        item == MemoryItem(id, message, importance)
        m1 == [m EXCEPT !.created = id,
                        !.memory_map = @ \cup {id},
                        !.memory_types[message.type] = @ + 1]
        placed ==
            IF importance >= m1.importance_threshold
            THEN AddToLongTerm(m1, item)
            ELSE IF Len(m1.working_memory) < m1.working_memory_limit
                 THEN [mem |-> [m1 EXCEPT !.working_memory = Append(@, item)],
                       raised |-> FALSE]
                 ELSE [mem |-> [ConsolidateWorkingMemory(m1) EXCEPT
                                   !.working_memory = Append(@, item)],
                       raised |-> FALSE]
    IN IF placed.raised
       THEN placed
       ELSE [mem |-> [UpdateIndices(placed.mem, item) EXCEPT !.total_memories = @ + 1],
             raised |-> FALSE]

\* ------------------------------------------------------------------------
\* agent.py : Agent
\* ------------------------------------------------------------------------
AgentIds == {"a1", "a2"}

\* agent.role.name
RoleName(a) == IF a = "a1" THEN "A" ELSE "B"

\* The agents constructed with an llm; the others have llm = None.
WithLLM == {"a1"}

\* Everyone who sends a message: the characters and an outside user.
Senders == {"User", "A", "B"}

\* memory_config passed to Agent.__init__ (small limits instead of 5/20/100).
AgentMemory == NewMemory(1, 2, 1, DefaultThreshold)

NewContext ==
    [current_topic |-> None,
     conversation_depth |-> 0,
     last_speaker |-> None,
     interaction_count |-> [s \in Senders |-> 0],
     last_emotions |-> [s \in Senders |-> None],
     conversation_history |-> <<>>]

\* Agent.__init__; locked and waiters are the asyncio.Lock _state_lock.
NewAgent ==
    [state |-> "idle", context |-> NewContext, memory |-> AgentMemory,
     locked |-> FALSE, waiters |-> <<>>]

UpdateInteraction(ctx, agent_name, emotion) ==
    [ctx EXCEPT !.interaction_count[agent_name] = @ + 1,
                !.last_speaker = agent_name,
                !.last_emotions[agent_name] = IF emotion # None THEN emotion ELSE @]

UpdateContext(ctx, a, message) ==
    LET c1 == IF message.sender # RoleName(a)
              THEN [UpdateInteraction(ctx, message.sender,
                                      IF message.emotion_tags # <<>>
                                      THEN message.emotion_tags[1] ELSE None)
                      EXCEPT !.conversation_depth = @ + 1]
              ELSE ctx
    IN IF message.topic_tags # <<>>
       THEN [c1 EXCEPT !.current_topic = message.topic_tags[1],
                       !.conversation_history = Append(@, message.topic_tags[1])]
       ELSE c1

\* What _analyze_emotion can give back: None (no llm, generate raised, or the
\* text was not JSON), or the parsed dictionary.
NoEmotion == [intensity |-> 0, emotion |-> None, parsed |-> FALSE]

EmotionOutcomes ==
    { NoEmotion,
      [intensity |-> 100, emotion |-> "joy", parsed |-> TRUE] }

BaseImportance == 50
DirectBonus == 20
MinImportance == 10
MaxImportance == 100

PriorityWeight(p) ==
    CASE p = "LOW" -> 0 - 10
      [] p = "NORMAL" -> 0
      [] p = "HIGH" -> 20
      [] p = "URGENT" -> 30

TypeWeight(t) ==
    CASE t = "emotion" -> 15
      [] t = "action" -> 10
      [] t = "system" -> 20
      [] t = "thought" -> 10
      [] OTHER -> 0

\* a clamp that bounds from below only: max(0.1, importance)
ClampBelow(x) == IF x < MinImportance THEN MinImportance ELSE x

Clamp(x) == IF x < MinImportance THEN MinImportance
            ELSE IF x > MaxImportance THEN MaxImportance ELSE x

\* _evaluate_message_importance, given the outcome of _analyze_emotion.
EvaluateMessageImportance(a, message, analysis) ==
    Clamp(BaseImportance
          + (IF a \in WithLLM /\ analysis.parsed THEN (analysis.intensity * 3) \div 10 ELSE 0)
          + PriorityWeight(message.priority)
          + TypeWeight(message.type)
          + (IF message.receiver = RoleName(a) THEN DirectBonus ELSE 0))

\* agent.py:203-204: message.metadata.emotion_tags.append(...), a plain append.
TagEmotion(a, message, analysis) ==
    IF a \in WithLLM /\ analysis.parsed /\ analysis.emotion # None
    THEN [message EXCEPT !.emotion_tags = Append(@, analysis.emotion)]
    ELSE message

\* Memory has no method get_recent_context: the call at agent.py:240 raises
\* AttributeError.
GetRecentContext(m, n) == [raised |-> TRUE, value |-> <<>>]

\* An exception that leaves a call instead of a value.
Raised == "<raised>"

\* What llm.generate does when asked for the reply: an llm that failed on the
\* emotion prompt of this call (raised or gave no JSON) raises, one that
\* answered it returns text.
LLMReply(analysis) == IF analysis.parsed THEN "reply" ELSE Raised

\* _generate_response: None without an llm; with one, the AttributeError of
\* get_recent_context, like a failure of llm.generate, is caught by the except
\* clause, which returns None.  reply is what llm.generate does.
\* _generate_response without its try/except: the exception leaves it
GenerateResponseUncaught(a, m, message, reply) ==
    IF a \notin WithLLM THEN None
    ELSE IF GetRecentContext(m, 5).raised \/ reply = Raised THEN Raised
    ELSE reply

GenerateResponse(a, m, message, reply) ==
    IF a \notin WithLLM THEN None
    ELSE IF GetRecentContext(m, 5).raised \/ reply = Raised THEN None
    ELSE reply

Truthy(x) == x # None /\ x # ""

\* the finally clause of receive_message
\* a finally clause that resets the state whatever it is
FinallyAlways(state) == "idle"

\* no finally clause: the state stays as the body left it
FinallyMissing(state) == state

Finally(state) == IF state # "error" THEN "idle" ELSE state

\* receive_message from the return of _analyze_emotion to its end: scoring,
\* memory.add_message, _generate_response, the reply's add_message, and the
\* except and finally clauses.
ReceiveRest(ag, a, message, analysis) ==
    LET importance == EvaluateMessageImportance(a, message, analysis)
        tagged == TagEmotion(a, message, analysis)
        r == AddMessage(ag.memory, tagged, importance)
        response == GenerateResponse(a, r.mem, tagged, LLMReply(analysis))
        response_msg == Message(<<"reply", tagged.message_id, a>>, RoleName(a),
                                tagged.sender, tagged.type, tagged.priority, {})
        r2 == AddMessage(r.mem, [response_msg EXCEPT !.thread_id = tagged.thread_id],
                         (importance * 9) \div 10)
    IN IF r.raised \/ response = Raised
       THEN [ag |-> [ag EXCEPT !.memory = r.mem, !.state = Finally("error")],
             message |-> tagged, result |-> None, exit |-> "error"]
       ELSE IF ~Truthy(response)
       THEN [ag |-> [ag EXCEPT !.memory = r.mem, !.state = Finally("thinking")],
             message |-> tagged, result |-> response, exit |-> "ok"]
       ELSE IF r2.raised
       THEN [ag |-> [ag EXCEPT !.memory = r2.mem, !.state = Finally("error")],
             message |-> tagged, result |-> None, exit |-> "error"]
       ELSE [ag |-> [ag EXCEPT !.memory = r2.mem, !.state = Finally("thinking")],
             message |-> tagged, result |-> response, exit |-> "ok"]

\* receive_message without the STOPPED check of agent.py:143-144
ReceiveEnterUnchecked(ag, a, message) ==
    LET ag1 == [ag EXCEPT !.state = "listening",
                          !.context = UpdateContext(@, a, message)]
    IN IF a \in WithLLM
       THEN [ag |-> ag1, message |-> message, result |-> None,
             exit |-> None, pc |-> "analyzing"]
       ELSE [pc |-> "done"] @@ ReceiveRest(ag1, a, message, NoEmotion)

\* receive_message from the acquisition of the lock to its first suspension
\* (llm.generate inside _analyze_emotion) or, without an llm, to its end.
ReceiveEnter(ag, a, message) ==
    IF ag.state = "stopped"
    THEN [ag |-> [ag EXCEPT !.state = Finally(ag.state)],
          message |-> message, result |-> None, exit |-> "stopped", pc |-> "done"]
    ELSE LET ag1 == [ag EXCEPT !.state = "listening",
                               !.context = UpdateContext(@, a, message)]
         IN IF a \in WithLLM
            THEN [ag |-> ag1, message |-> message, result |-> None,
                  exit |-> None, pc |-> "analyzing"]
            ELSE [pc |-> "done"] @@ ReceiveRest(ag1, a, message, NoEmotion)

\* asyncio.Lock.acquire takes the lock at once only when it is free and nobody
\* waits for it; otherwise the caller joins the FIFO of waiters.
\* an acquire that does not look at whether the lock is held
CanAcquireHeld(ag) == ag.waiters = <<>>

CanAcquire(ag) == ~ag.locked /\ ag.waiters = <<>>

\* asyncio.Lock.release: the lock is free and the first waiter is woken; it
\* stays in the queue until it runs again.
\* a release that wakes the newest waiter
LastWaiter(waiters) == waiters[Len(waiters)]

FirstWaiter(waiters) == waiters[1]

WakeUpFirst(tk, ag, a) ==
    IF ag.waiters # <<>> /\ tk[<<FirstWaiter(ag.waiters), a>>].pc = "waiting"
    THEN [tk EXCEPT ![<<FirstWaiter(ag.waiters), a>>].pc = "woken"]
    ELSE tk

\* an exit that leaves the lock held
ReleaseNever(ag) == ag

Release(ag) == [ag EXCEPT !.locked = FALSE]

RemoveWaiter(waiters, b) == SelectSeq(waiters, LAMBDA x : x # b)

\* ------------------------------------------------------------------------
\* scene.py : Scene
\* ------------------------------------------------------------------------
Names == {RoleName(a) : a \in AgentIds}

\* SceneConfig of the scene (small limits instead of 10 and 1000).
SceneConfig ==
    [max_characters |-> 2, dialogue_history_limit |-> 2, enable_async |-> TRUE,
     enable_logging |-> TRUE]

Broadcasts == 1 .. MaxCalls

TaskKeys == Broadcasts \X AgentIds

EmptyMap == [n \in {} |-> None]

\* A receive_message invocation: where it is (pc), what it returned (result), how
\* it left (exit), what its emotion analysis gave.
NoTask == [pc |-> "none", result |-> None, exit |-> None, analysis |-> NoEmotion]

NoBcast == [status |-> "none", targets |-> {}, done |-> {}, pending |-> {},
            responses |-> EmptyMap]

\* The SceneEvent values the scene triggers, and the two kinds of handler: one
\* that returns and one that raises an Exception.
SceneEvents == {"character_joined", "character_left", "dialogue_broadcast"}

Handlers == {"quiet", "raising"}

NoHandlers == [e \in SceneEvents |-> <<>>]

\* a _trigger_event without try/except: the first handler that raises ends it
TriggerEventUncaught(cfg, handlers, event) ==
    LET hs == handlers[event]
        raising == {i \in DOMAIN hs : hs[i] = "raising"}
        last == IF raising = {} THEN Len(hs)
                ELSE CHOOSE i \in raising : \A j \in raising : i <= j
    IN [called |-> [i \in 1 .. last |-> i],
        result |-> IF raising = {} THEN "ok" ELSE Raised]

\* Scene._trigger_event: every handler registered for the event is called in
\* registration order; an Exception of a handler is caught, and logged only
\* when logging is enabled, so the call itself never raises.
TriggerEvent(cfg, handlers, event) ==
    LET hs == handlers[event]
    IN [called |-> [i \in 1 .. Len(hs) |-> i], result |-> "ok"]

\* The messages broadcast_dialogue is called with (message_id is set by the call).
BroadcastInputs ==
    { Message(0, "User", None, "chat", "NORMAL", {}),
      Message(0, "User", "A", "chat", "HIGH", {"plan"}),
      Message(0, "A", None, "system", "URGENT", {}) }

\* _add_to_history
\* a history that takes the new entry at its front
AddToHistoryFront(history, id) ==
    LET h == <<id>> \o history
    IN IF Len(h) > config.dialogue_history_limit
       THEN SubSeq(h, 1, config.dialogue_history_limit) ELSE h

\* an overflow that drops the entry just appended
AddToHistoryDropNewest(history, id) ==
    LET h == Append(history, id)
    IN IF Len(h) > config.dialogue_history_limit THEN SubSeq(h, 1, Len(h) - 1) ELSE h

AddToHistory(history, id) ==
    LET h == Append(history, id)
    IN IF Len(h) > config.dialogue_history_limit THEN Tail(h) ELSE h

\* the characters _broadcast_async creates a task for
\* a fan-out that does not skip the sender
EligibleWithSender(chars, message) ==
    {a \in AgentIds :
        /\ chars[RoleName(a)] = a
        /\ (message.receiver = None \/ message.receiver = RoleName(a))}

Eligible(chars, message) ==
    {a \in AgentIds :
        /\ chars[RoleName(a)] = a
        /\ RoleName(a) # message.sender
        /\ (message.receiver = None \/ message.receiver = RoleName(a))}

\* the receive_message invocations made so far
Created(tk) == {k \in TaskKeys : tk[k].pc # "none"}

\* The event loop runs ready callbacks in FIFO order, so the tasks of an
\* earlier broadcast have their first run before those of a later one.
FirstInLine(tk, b) == \A k \in TaskKeys : k[1] < b => tk[k].pc # "created"

\* scene.py:132-136: the replies of the tasks in done, keyed by character name
\* a collection that keeps every result, empty or not
CollectEvery(tk, b, done) ==
    [n \in {RoleName(a) : a \in done} |->
        tk[<<b, CHOOSE a \in done : RoleName(a) = n>>].result]

Collect(tk, b, done) ==
    LET replied == {a \in done : Truthy(tk[<<b, a>>].result)}
    IN [n \in {RoleName(a) : a \in replied} |->
          tk[<<b, CHOOSE a \in replied : RoleName(a) = n>>].result]

\* Scene.get_dialogue_history(limit, character_name): history is the list of
\* message ids of dialogue_history; NoLimit and None stand for the arguments
\* left at their default None.  "if character_name:" and "if limit:" test
\* truthiness, so limit = 0 is treated like no limit.
NoLimit == 0 - 1

GetDialogueHistory(history, limit, character_name) ==
    LET filtered == IF Truthy(character_name)
                    THEN SelectSeq(history,
                                   LAMBDA id : \/ messages[id].sender = character_name
                                               \/ messages[id].receiver = character_name)
                    ELSE history
    IN IF limit # NoLimit /\ limit # 0
       THEN Drop(filtered, IF Len(filtered) > limit THEN Len(filtered) - limit ELSE 0)
       ELSE filtered

\* the arguments get_dialogue_history is called with
HistoryLimits == {NoLimit, 0, 1, 2}

\* ------------------------------------------------------------------------
\* The stand-alone store: any sequence of add_message calls
\* ------------------------------------------------------------------------
WorkingLimits == {1, 2}
ShortTermLimits == {2, 3, 4}
LongTermLimits == {1, 2}

\* The messages and importances the stand-alone store is called with.
AddInputs ==
    { <<Message("m1", "Alice", None, "chat", "NORMAL", {"test"}), 40>>,
      <<Message("m2", "Bob", None, "emotion", "NORMAL", {}), 60>>,
      <<Message("m1", "Alice", None, "chat", "NORMAL", {"test"}), 60>>,
      <<Message("m3", "System", None, "system", "NORMAL", {"test"}), 90>> }

NoAdd == [op |-> "none"]

\* A scene with nobody in it, as Scene.__init__ leaves it.
NoCharacters == [n \in Names |-> None]

\* The scene after each agent has joined through add_character, as in the demo
\* of scene.py.
AllJoined == [n \in Names |-> CHOOSE a \in AgentIds : RoleName(a) = n]

NoCall == [op |-> "none"]

InitScene(chars, cfg) ==
    /\ config = cfg
    /\ lastCall = NoCall
    /\ event_handlers = NoHandlers
    /\ handled = <<>>
    /\ characters = chars
    /\ dialogue_history = <<>>
    /\ messages = EmptyMap
    /\ agents = [a \in AgentIds |-> NewAgent]
    /\ tasks = [k \in TaskKeys |-> NoTask]
    /\ bcasts = [b \in Broadcasts |-> NoBcast]
    /\ arrival = [a \in AgentIds |-> <<>>]
    /\ entered = [a \in AgentIds |-> <<>>]
    /\ stops = 0

InitMem ==
    /\ \E w \in WorkingLimits, s \in ShortTermLimits, l \in LongTermLimits :
          store = NewMemory(w, s, l, DefaultThreshold)
    /\ lastAdd = NoAdd
    /\ InitScene(NoCharacters, SceneConfig)

StoreAdd ==
    /\ store.created < MaxAdds
    /\ \E input \in AddInputs :
          LET r == AddMessage(store, input[1], input[2])
          IN /\ store' = r.mem
             /\ lastAdd' = [op |-> "add", raised |-> r.raised,
                            importance |-> input[2], type |-> input[1].type,
                            before |-> store]
    /\ UNCHANGED sceneVars

NextMem == StoreAdd

SpecMem == InitMem /\ [][NextMem]_vars

\* ------------------------------------------------------------------------
\* The scene with its agents
\* ------------------------------------------------------------------------
\* Init: the scene is constructed and every agent has joined it.
Init ==
    /\ store = AgentMemory
    /\ lastAdd = NoAdd
    /\ InitScene(AllJoined, SceneConfig)

\* self.logger exists only when config.enable_logging is set (scene.py:53-55):
\* without it every self.logger.<method> raises AttributeError.
Logger(cfg) == IF cfg.enable_logging THEN "ok" ELSE Raised

CharacterCount(chars) == Cardinality({n \in Names : chars[n] # None})

\* Scene.add_character: what it returns ("True", "False" or Raised) and the
\* participant map it leaves.  No event handler is registered.
AddCharacterCall(cfg, chars, a) ==
    IF CharacterCount(chars) >= cfg.max_characters
    THEN [characters |-> chars,
          result |-> IF Logger(cfg) = Raised THEN Raised ELSE "False"]
    ELSE IF chars[RoleName(a)] # None
    THEN [characters |-> chars,
          result |-> IF Logger(cfg) = Raised THEN Raised ELSE "False"]
    ELSE [characters |-> [chars EXCEPT ![RoleName(a)] = a],
          result |-> IF Logger(cfg) = Raised THEN Raised ELSE "True"]

\* an operation that triggered no event
NoTrigger == [called |-> <<>>, result |-> "ok"]

\* add_character as a step: the accepting branch triggers CHARACTER_JOINED
\* after the insertion and before the logging; a raise there would end the call.
AddCharacter(a) ==
    LET r == AddCharacterCall(config, characters, a)
        ev == IF r.characters # characters
              THEN TriggerEvent(config, event_handlers, "character_joined")
              ELSE NoTrigger
    IN /\ characters' = r.characters
       /\ lastCall' = [op |-> "add_character", agent |-> a, name |-> RoleName(a),
                       result |-> IF ev.result = Raised THEN Raised ELSE r.result,
                       called |-> ev.called, before |-> characters]
       /\ handled' = ev.called
       /\ UNCHANGED <<dialogue_history, messages, agents, tasks, bcasts, arrival,
                      entered, stops, config, event_handlers>>
       /\ UNCHANGED memVars

\* a remove_character that removes the character and reports False
RemoveCharacterCallUnreported(cfg, chars, n) ==
    [characters |-> [chars EXCEPT ![n] = None], result |-> "False"]

\* Scene.remove_character
RemoveCharacterCall(cfg, chars, n) ==
    IF chars[n] = None
    THEN [characters |-> chars, result |-> "False"]
    ELSE [characters |-> [chars EXCEPT ![n] = None],
          result |-> IF Logger(cfg) = Raised THEN Raised ELSE "True"]

\* remove_character as a step: CHARACTER_LEFT is triggered after the pop.
RemoveCharacter(n) ==
    LET r == RemoveCharacterCall(config, characters, n)
        ev == IF r.characters # characters
              THEN TriggerEvent(config, event_handlers, "character_left")
              ELSE NoTrigger
    IN /\ characters' = r.characters
       /\ lastCall' = [op |-> "remove_character", agent |-> characters[n], name |-> n,
                       result |-> IF ev.result = Raised THEN Raised ELSE r.result,
                       called |-> ev.called, before |-> characters]
       /\ handled' = ev.called
       /\ UNCHANGED <<dialogue_history, messages, agents, tasks, bcasts, arrival,
                      entered, stops, config, event_handlers>>
       /\ UNCHANGED memVars

\* The caller sets agent.state = AgentState.STOPPED.
Stop(a) ==
    /\ stops < MaxStops
    /\ agents[a].state # "stopped"
    /\ agents' = [agents EXCEPT ![a].state = "stopped"]
    /\ stops' = stops + 1
    /\ UNCHANGED <<characters, dialogue_history, messages, tasks, bcasts, arrival, entered>>
    /\ UNCHANGED <<memVars, castVars>>

\* Scene.broadcast_dialogue, called with input as the b-th call, up to
\* asyncio.wait: the history append, the DIALOGUE_BROADCAST event, the
\* fan-out; with nobody eligible it returns {} at once.  An exception before
\* the fan-out would be caught at line 108 and end the call without one.
BroadcastMessage(b, input) ==
    /\ config.enable_async
    /\ bcasts[b].status = "none"
    /\ IF b = 1 THEN TRUE ELSE bcasts[b - 1].status # "none"
    /\ LET message == [input EXCEPT !.message_id = b, !.thread_id = b]
           ev == TriggerEvent(config, event_handlers, "dialogue_broadcast")
           eligible == IF ev.result = Raised THEN {} ELSE Eligible(characters, message)
       IN /\ Cardinality(Created(tasks)) + Cardinality(eligible) <= MaxCalls
          /\ handled' = ev.called
          /\ messages' = (b :> message) @@ messages
          /\ dialogue_history' = AddToHistory(dialogue_history, b)
          /\ tasks' = [k \in TaskKeys |->
                         IF k[1] = b /\ k[2] \in eligible
                         THEN [NoTask EXCEPT !.pc = "created"]
                         ELSE tasks[k]]
          /\ bcasts' = [bcasts EXCEPT ![b] =
                          [NoBcast EXCEPT
                             !.status = IF eligible = {} THEN "returned" ELSE "waiting",
                             !.targets = eligible]]
    /\ UNCHANGED <<characters, agents, arrival, entered, stops>>
    /\ UNCHANGED <<memVars, config, lastCall, event_handlers>>

Broadcast(b) == \E input \in BroadcastInputs : BroadcastMessage(b, input)

\* receive_message ran from r's starting point to its next suspension or to
\* its end; at the end the lock is released and the first waiter woken.
Ran(b, a, r, analysis) ==
    LET finished == r.pc = "done"
        ag == IF finished THEN Release(r.ag) ELSE r.ag
        tk == [tasks EXCEPT ![<<b, a>>] =
                 [@ EXCEPT !.pc = r.pc, !.result = r.result, !.exit = r.exit,
                           !.analysis = analysis]]
    IN /\ agents' = [agents EXCEPT ![a] = ag]
       /\ tasks' = IF finished THEN WakeUpFirst(tk, ag, a) ELSE tk
       /\ messages' = [messages EXCEPT ![b] = r.message]

\* The task of _get_character_response runs for the first time: it calls
\* receive_message, which takes the lock or queues for it.
TaskStart(b, a) ==
    /\ tasks[<<b, a>>].pc = "created"
    /\ FirstInLine(tasks, b)
    /\ arrival' = [arrival EXCEPT ![a] = Append(@, b)]
    /\ IF CanAcquire(agents[a])
       THEN /\ Ran(b, a, ReceiveEnter([agents[a] EXCEPT !.locked = TRUE], a, messages[b]),
                   NoEmotion)
            /\ entered' = [entered EXCEPT ![a] = Append(@, b)]
       ELSE /\ agents' = [agents EXCEPT ![a].waiters = Append(@, b)]
            /\ tasks' = [tasks EXCEPT ![<<b, a>>].pc = "waiting"]
            /\ UNCHANGED <<messages, entered>>
    /\ UNCHANGED <<characters, dialogue_history, bcasts, stops>>
    /\ UNCHANGED <<memVars, castVars>>

\* A woken waiter runs again: it leaves the queue and holds the lock.
TaskResume(b, a) ==
    /\ tasks[<<b, a>>].pc = "woken"
    /\ Ran(b, a,
           ReceiveEnter([agents[a] EXCEPT !.waiters = RemoveWaiter(@, b), !.locked = TRUE],
                        a, messages[b]),
           NoEmotion)
    /\ entered' = [entered EXCEPT ![a] = Append(@, b)]
    /\ UNCHANGED <<characters, dialogue_history, bcasts, arrival, stops>>
    /\ UNCHANGED <<memVars, castVars>>

\* llm.generate of _analyze_emotion returns (or raises) and receive_message
\* runs to its end.
EmotionReturn(b, a) ==
    /\ tasks[<<b, a>>].pc = "analyzing"
    /\ \E analysis \in EmotionOutcomes :
          Ran(b, a, [pc |-> "done"] @@ ReceiveRest(agents[a], a, messages[b], analysis),
              analysis)
    /\ UNCHANGED <<characters, dialogue_history, bcasts, arrival, entered, stops>>
    /\ UNCHANGED <<memVars, castVars>>

\* asyncio.wait returns because every task is done: the replies are collected
\* and broadcast_dialogue returns.
AllDone(b) ==
    /\ bcasts[b].status = "waiting"
    /\ \A a \in bcasts[b].targets : tasks[<<b, a>>].pc = "done"
    /\ bcasts' = [bcasts EXCEPT ![b].status = "returned",
                                ![b].done = bcasts[b].targets,
                                ![b].responses = Collect(tasks, b, bcasts[b].targets)]
    /\ UNCHANGED <<characters, dialogue_history, messages, agents, tasks, arrival, entered, stops>>
    /\ UNCHANGED <<memVars, castVars>>

\* asyncio.wait returns at the timeout with tasks still pending (every task has
\* had its first run by then): the replies of the done tasks are collected.
Deadline(b) ==
    /\ bcasts[b].status = "waiting"
    /\ \A a \in bcasts[b].targets : tasks[<<b, a>>].pc # "created"
    /\ \E a \in bcasts[b].targets : tasks[<<b, a>>].pc # "done"
    /\ LET done == {a \in bcasts[b].targets : tasks[<<b, a>>].pc = "done"}
       IN bcasts' = [bcasts EXCEPT ![b].status = "cancelling",
                                   ![b].done = done,
                                   ![b].pending = bcasts[b].targets \ done,
                                   ![b].responses = Collect(tasks, b, done)]
    /\ UNCHANGED <<characters, dialogue_history, messages, agents, tasks, arrival, entered, stops>>
    /\ UNCHANGED <<memVars, castVars>>

\* scene.py:141-146: task.cancel() and await task for one pending task; after
\* the last one broadcast_dialogue returns.  CancelledError is not an
\* Exception: it leaves receive_message through the finally clause and the
\* lock's exit; a task that finished meanwhile is left alone, its result dropped.
CancelPending(b, a) ==
    /\ bcasts[b].status = "cancelling"
    /\ a \in bcasts[b].pending
    /\ LET pc == tasks[<<b, a>>].pc
           ag == agents[a]
           cancelled == [tasks EXCEPT ![<<b, a>>].pc = "cancelled",
                                      ![<<b, a>>].exit = "cancelled"]
       IN CASE pc = "analyzing" ->
                 LET ag1 == Release([ag EXCEPT !.state = Finally(ag.state)])
                 IN /\ agents' = [agents EXCEPT ![a] = ag1]
                    /\ tasks' = WakeUpFirst(cancelled, ag1, a)
            [] pc = "waiting" ->
                 /\ agents' = [agents EXCEPT ![a].waiters = RemoveWaiter(@, b)]
                 /\ tasks' = cancelled
            [] pc = "woken" ->
                 LET ag1 == [ag EXCEPT !.waiters = RemoveWaiter(@, b)]
                 IN /\ agents' = [agents EXCEPT ![a] = ag1]
                    /\ tasks' = WakeUpFirst(cancelled, ag1, a)
            [] OTHER ->
                 UNCHANGED <<agents, tasks>>
    /\ bcasts' = [bcasts EXCEPT
                    ![b].pending = @ \ {a},
                    ![b].status = IF bcasts[b].pending = {a} THEN "returned" ELSE @]
    /\ UNCHANGED <<characters, dialogue_history, messages, arrival, entered, stops>>
    /\ UNCHANGED <<memVars, castVars>>

Next ==
    \/ \E a \in AgentIds : Stop(a)
    \/ \E b \in Broadcasts : Broadcast(b)
    \/ \E b \in Broadcasts, a \in AgentIds : TaskStart(b, a)
    \/ \E b \in Broadcasts, a \in AgentIds : TaskResume(b, a)
    \/ \E b \in Broadcasts, a \in AgentIds : EmotionReturn(b, a)
    \/ \E b \in Broadcasts : AllDone(b)
    \/ \E b \in Broadcasts : Deadline(b)
    \/ \E b \in Broadcasts, a \in AgentIds : CancelPending(b, a)

Spec == Init /\ [][Next]_vars

\* ------------------------------------------------------------------------
\* The cast of a scene: add_character and remove_character under any config
\* ------------------------------------------------------------------------
\* The agents offered to add_character: a3 is a second agent whose role is
\* named like a2's.
Candidates == AgentIds \cup {"a3"}

Capacities == {1, 2, 3}

SceneConfigs ==
    {[SceneConfig EXCEPT !.max_characters = m, !.enable_logging = l] :
        m \in Capacities, l \in BOOLEAN}

InitCast ==
    /\ store = AgentMemory
    /\ lastAdd = NoAdd
    /\ \E cfg \in SceneConfigs : InitScene(NoCharacters, cfg)

NextCast ==
    \/ \E a \in Candidates : AddCharacter(a)
    \/ \E n \in Names : RemoveCharacter(n)

SpecCast == InitCast /\ [][NextCast]_vars

\* ------------------------------------------------------------------------
\* The scene under messages that every receiver scores as important
\* ------------------------------------------------------------------------
\* System announcements and direct requests: each is scored at or above the
\* importance threshold by its receivers, except the LOW one when the llm
\* gives no emotion.
ImportantInputs ==
    { Message(0, "A", None, "system", "URGENT", {}),
      Message(0, "User", None, "system", "URGENT", {}),
      Message(0, "User", "A", "chat", "HIGH", {}),
      Message(0, "User", "A", "chat", "LOW", {}) }

BroadcastImportant(b) == \E input \in ImportantInputs : BroadcastMessage(b, input)

NextFault ==
    \/ \E b \in Broadcasts : BroadcastImportant(b)
    \/ \E b \in Broadcasts, a \in AgentIds : TaskStart(b, a)
    \/ \E b \in Broadcasts, a \in AgentIds : TaskResume(b, a)
    \/ \E b \in Broadcasts, a \in AgentIds : EmotionReturn(b, a)
    \/ \E b \in Broadcasts : AllDone(b)
    \/ \E b \in Broadcasts : Deadline(b)
    \/ \E b \in Broadcasts, a \in AgentIds : CancelPending(b, a)

SpecFault == Init /\ [][NextFault]_vars

\* ------------------------------------------------------------------------
\* The scene whose cast changes while broadcasts are under way
\* ------------------------------------------------------------------------
\* broadcast_dialogue suspends in asyncio.wait; until it returns, the caller's
\* other coroutines may call add_character, remove_character and
\* broadcast_dialogue on the same scene.
StageInputs == { Message(0, "User", None, "chat", "NORMAL", {}) }

BroadcastOnStage(b) == \E input \in StageInputs : BroadcastMessage(b, input)

\* the agents that leave and rejoin the scene
Leaving == {"a2"}

NextStage ==
    \/ \E a \in Leaving : AddCharacter(a)
    \/ \E a \in Leaving : RemoveCharacter(RoleName(a))
    \/ \E b \in Broadcasts : BroadcastOnStage(b)
    \/ \E b \in Broadcasts, a \in AgentIds : TaskStart(b, a)
    \/ \E b \in Broadcasts, a \in AgentIds : TaskResume(b, a)
    \/ \E b \in Broadcasts, a \in AgentIds : EmotionReturn(b, a)
    \/ \E b \in Broadcasts : AllDone(b)
    \/ \E b \in Broadcasts : Deadline(b)
    \/ \E b \in Broadcasts, a \in AgentIds : CancelPending(b, a)

SpecStage == Init /\ [][NextStage]_vars

\* ------------------------------------------------------------------------
\* One agent under a queue of direct requests, with fair scheduling
\* ------------------------------------------------------------------------
\* Requests addressed to A alone: every broadcast gives one receive_message
\* on a1, so they queue on its lock.  They are stored in long_term, whose
\* overflow is the internal fault.
DirectInputs == { Message(0, "User", "A", "chat", "HIGH", {}) }

BroadcastDirect(b) == \E input \in DirectInputs : BroadcastMessage(b, input)

\* The caller stops an agent whose lock has just been released to a queued
\* receive_message that has not run yet (a stop made while a receive_message
\* is inside is undone by its finally clause).
StopQueued(a) ==
    /\ ~agents[a].locked
    /\ agents[a].waiters # <<>>
    /\ Stop(a)

NextQueue ==
    \/ \E a \in AgentIds : StopQueued(a)
    \/ \E b \in Broadcasts : BroadcastDirect(b)
    \/ \E b \in Broadcasts, a \in AgentIds : TaskStart(b, a)
    \/ \E b \in Broadcasts, a \in AgentIds : TaskResume(b, a)
    \/ \E b \in Broadcasts, a \in AgentIds : EmotionReturn(b, a)
    \/ \E b \in Broadcasts : AllDone(b)
    \/ \E b \in Broadcasts : Deadline(b)
    \/ \E b \in Broadcasts, a \in AgentIds : CancelPending(b, a)

\* The event loop runs every ready task (a woken waiter resumes), and every
\* llm.generate call that is not cancelled returns or raises.
Scheduling ==
    \A b \in Broadcasts, a \in AgentIds :
        /\ WF_vars(TaskResume(b, a))
        /\ WF_vars(EmotionReturn(b, a))

SpecQueue == Init /\ [][NextQueue]_vars /\ Scheduling

\* ------------------------------------------------------------------------
\* The scene under messages that arrive with an emotion tag
\* ------------------------------------------------------------------------
\* Emotion messages built with metadata.emotion_tags already set, like the
\* second test message of agent.py's demo (agent.py:381-389), addressed to
\* all or to A.
TaggedInputs ==
    { [Message(0, "User", r, "emotion", "HIGH", {}) EXCEPT !.emotion_tags = <<"joy">>] :
         r \in {None, "A"} }

BroadcastTagged(b) == \E input \in TaggedInputs : BroadcastMessage(b, input)

NextTags ==
    \/ \E b \in Broadcasts : BroadcastTagged(b)
    \/ \E b \in Broadcasts, a \in AgentIds : TaskStart(b, a)
    \/ \E b \in Broadcasts, a \in AgentIds : TaskResume(b, a)
    \/ \E b \in Broadcasts, a \in AgentIds : EmotionReturn(b, a)
    \/ \E b \in Broadcasts : AllDone(b)
    \/ \E b \in Broadcasts : Deadline(b)
    \/ \E b \in Broadcasts, a \in AgentIds : CancelPending(b, a)

SpecTags == Init /\ [][NextTags]_vars

\* ------------------------------------------------------------------------
\* Scoring: a fresh agent receives one message
\* ------------------------------------------------------------------------
\* The intensity is whatever number the llm's JSON holds, in hundredths.
Intensities == {0 - 200, 0, 100, 300}

ScoreOutcomes ==
    {NoEmotion} \cup {[intensity |-> i, emotion |-> "joy", parsed |-> TRUE] : i \in Intensities}

\* every type and priority, addressed to all, to A or to B
ScoreInputs ==
    { Message("m", "User", r, t, p, {}) :
         r \in {None, "A", "B"}, t \in MessageTypes, p \in MessagePriorities }

InitScore ==
    /\ store = AgentMemory
    /\ lastAdd = NoAdd
    /\ InitScene(NoCharacters, SceneConfig)

\* receive_message of a new agent, from _evaluate_message_importance to
\* memory.add_message (agent.py:152-153)
ScoreAndStore ==
    /\ \E a \in AgentIds, message \in ScoreInputs, analysis \in ScoreOutcomes :
          LET importance == EvaluateMessageImportance(a, message, analysis)
              r == AddMessage(AgentMemory, TagEmotion(a, message, analysis), importance)
          IN /\ store' = r.mem
             /\ lastAdd' = [op |-> "receive", raised |-> r.raised, agent |-> a,
                            message |-> message, analysis |-> analysis,
                            importance |-> importance, type |-> message.type,
                            before |-> AgentMemory]
    /\ UNCHANGED sceneVars

NextScore == ScoreAndStore

SpecScore == InitScore /\ [][NextScore]_vars

\* ------------------------------------------------------------------------
\* Claims about the stand-alone store (checked under SpecMem)
\* ------------------------------------------------------------------------
TierIds(m) == Ids(m.working_memory) \cup Ids(m.short_term) \cup Ids(m.long_term)

TypeIndexed(m, t) == Range(m.type_index[t])

AddReturned == lastAdd.op = "add" /\ ~lastAdd.raised

\* C1: whenever an add_message call returns, each of the three tier lists
\* holds no more items than its configured limit.
C1_CapacityInvariant ==
    AddReturned =>
        /\ Len(store.working_memory) <= store.working_memory_limit
        /\ Len(store.short_term) <= store.short_term_limit
        /\ Len(store.long_term) <= store.long_term_limit

\* C2: every add_message call completes without raising and increases
\* total_memories by exactly 1.
C2_AddNeverRejects ==
    lastAdd.op = "add" =>
        /\ ~lastAdd.raised
        /\ store.total_memories = lastAdd.before.total_memories + 1

\* C3: a memory id is held in some tier if and only if it is in the
\* type_index bucket of its message's type (and in no other bucket).
C3_IndexConsistency ==
    /\ \A s \in {store.working_memory, store.short_term, store.long_term} :
          \A i \in DOMAIN s : s[i].memory_id \in TypeIndexed(store, s[i].metadata.type)
    /\ \A t \in MessageTypes : TypeIndexed(store, t) \subseteq TierIds(store)

\* C4: each MemoryItem is held by at most one of the three tier lists and
\* appears there at most once.
C4_NoAliasing ==
    /\ Ids(store.working_memory) \cap Ids(store.short_term) = {}
    /\ Ids(store.working_memory) \cap Ids(store.long_term) = {}
    /\ Ids(store.short_term) \cap Ids(store.long_term) = {}
    /\ \A s \in {store.working_memory, store.short_term, store.long_term} :
          Cardinality(Ids(s)) = Len(s)

\* the last call was add_message with an importance at or above the threshold
DirectAdd == lastAdd.op = "add" /\ lastAdd.importance >= store.importance_threshold

\* C19: an add with importance >= importance_threshold appends the new item
\* to long_term and leaves working_memory and short_term as they were,
\* whatever the fill of the working tier; into an empty long_term it gives
\* long_term_count = 1.
C19_DirectToLongTerm ==
    DirectAdd =>
        LET before == lastAdd.before
            n == Len(before.long_term)
        IN /\ Len(store.long_term) = n + 1
           /\ SubSeq(store.long_term, 1, n) = before.long_term
           /\ store.long_term[n + 1].memory_id \notin TierIds(before)
           /\ store.long_term[n + 1].importance = lastAdd.importance
           /\ store.working_memory = before.working_memory
           /\ store.short_term = before.short_term
           /\ store.consolidation_count = before.consolidation_count
           /\ n = 0 => GetMemorySummary(store).long_term_count = 1

\* an important message was added to a store whose working tier was full and
\* whose long-term tier was empty
C19_Witness ==
    /\ DirectAdd
    /\ ~lastAdd.raised
    /\ Len(lastAdd.before.working_memory) = store.working_memory_limit
    /\ lastAdd.before.short_term # <<>>
    /\ lastAdd.before.long_term = <<>>
    /\ GetMemorySummary(store).long_term_count = 1

\* C20: a direct add that pushes long_term over long_term_limit completes and
\* evicts exactly one item of long_term, the one of lowest importance (the
\* oldest of them, items being last accessed when they were created), and
\* forgotten_memories grows by 1.
C20_EvictLeastImportant ==
    (DirectAdd /\ Len(lastAdd.before.long_term) + 1 > store.long_term_limit) =>
        LET before == lastAdd.before
            kept == Range(store.long_term)
        IN /\ ~lastAdd.raised
           /\ Len(store.long_term) = Len(before.long_term)
           /\ store.forgotten_memories = before.forgotten_memories + 1
           /\ \/ \E victim \in Range(before.long_term) \ kept :
                    \A x \in kept :
                       \/ x.importance > victim.importance
                       \/ x.importance = victim.importance
                             /\ x.memory_id > victim.memory_id
              \/ /\ store.long_term = before.long_term
                 /\ \A x \in kept : x.importance > lastAdd.importance

\* ------------------------------------------------------------------------
\* Claims about agents and the scene (checked under Spec)
\* ------------------------------------------------------------------------
\* the invocations on agent a that hold its lock and are suspended inside
\* receive_message
InSection(a) == {b \in Broadcasts : tasks[<<b, a>>].pc = "analyzing"}

Position(seq, x) == CHOOSE i \in DOMAIN seq : seq[i] = x

TierItems(m) == Range(m.working_memory) \cup Range(m.short_term) \cup Range(m.long_term)

\* C5: once an agent's state is stopped it stays stopped, whatever
\* receive_message calls follow.
C5_StoppedAbsorbing ==
    [][\A a \in AgentIds :
          agents[a].state = "stopped" => agents'[a].state = "stopped"]_vars

\* C6: a receive_message that finds the agent stopped leaves the agent's
\* store (tiers, indices, counters) and its context unchanged.
C6_StoppedReceiveFrame ==
    [][\A k \in TaskKeys :
          ( /\ agents[k[2]].state = "stopped"
            /\ tasks[k].pc \in {"created", "woken"}
            /\ tasks'[k].pc = "done" )
          => /\ agents'[k[2]].memory = agents[k[2]].memory
             /\ agents'[k[2]].context = agents[k[2]].context]_vars

\* a stopped agent with a non-empty store has rejected a message
C6_Witness ==
    \E k \in TaskKeys :
        /\ tasks[k].exit = "stopped"
        /\ agents[k[2]].memory.total_memories > 0
        /\ agents[k[2]].context.conversation_depth > 0

\* C7: at most one receive_message per agent is inside the section guarded by
\* _state_lock at any time.
C7_MutualExclusion ==
    \A a \in AgentIds :
        /\ Cardinality(InSection(a)) <= 1
        /\ InSection(a) # {} => agents[a].locked

\* one invocation is inside the section while another waits for the lock
C7_Witness ==
    \E a \in AgentIds, b1, b2 \in Broadcasts :
        /\ tasks[<<b1, a>>].pc = "analyzing"
        /\ tasks[<<b2, a>>].pc = "waiting"

\* C8: the invocations on one agent enter the section in the order they were
\* invoked, each one after the one before it has left, and the store holds
\* their messages in that order.
C8_ArrivalOrder ==
    \A a \in AgentIds :
        /\ entered[a] = SelectSeq(arrival[a], LAMBDA b : b \in Range(entered[a]))
        /\ \A i \in DOMAIN entered[a] :
              i < Len(entered[a]) => tasks[<<entered[a][i], a>>].pc \in {"done", "cancelled"}
        /\ \A x, y \in TierItems(agents[a].memory) :
              x.memory_id < y.memory_id =>
                  Position(entered[a], x.content) < Position(entered[a], y.content)

\* two invocations queued behind a third, which has left the section and
\* stored its message: the release woke the one that arrived first
C8_Witness ==
    \E a \in AgentIds :
        /\ Len(agents[a].waiters) = 2
        /\ tasks[<<agents[a].waiters[1], a>>].pc = "woken"
        /\ tasks[<<agents[a].waiters[2], a>>].pc = "waiting"
        /\ Len(entered[a]) = 1
        /\ arrival[a] = entered[a] \o agents[a].waiters
        /\ TierItems(agents[a].memory) # {}

\* C9: every entry of the map of a broadcast is the non-empty reply of an
\* eligible character whose receive_message had completed when asyncio.wait
\* returned; nobody else has an entry.
C9_OnlyCompletedReplies ==
    \A b \in Broadcasts :
        \A n \in DOMAIN bcasts[b].responses :
            \E a \in bcasts[b].done :
                /\ RoleName(a) = n
                /\ a \in Eligible(AllJoined, messages[b])
                /\ tasks[<<b, a>>].exit = "ok"
                /\ Truthy(bcasts[b].responses[n])
                /\ bcasts[b].responses[n] = tasks[<<b, a>>].result

\* a broadcast has returned after cancelling one character at the deadline
\* while another character had completed, and neither has an entry
C9_Witness ==
    \E b \in Broadcasts :
        /\ bcasts[b].status = "returned"
        /\ \E a \in bcasts[b].targets : tasks[<<b, a>>].exit = "cancelled"
        /\ \E a \in bcasts[b].done : tasks[<<b, a>>].exit = "ok"
        /\ DOMAIN bcasts[b].responses = {}

\* C10: the map a broadcast returns has an entry for every eligible character
\* whose receive_message completed before the deadline and whose llm returned
\* text.
C10_BroadcastCompleteness ==
    \A b \in Broadcasts :
        bcasts[b].status = "returned" =>
            \A a \in bcasts[b].done :
                ( /\ a \in WithLLM
                  /\ tasks[<<b, a>>].exit = "ok"
                  /\ tasks[<<b, a>>].analysis.parsed )
                => RoleName(a) \in DOMAIN bcasts[b].responses

C13_GenerationFailureIsNoReply ==
    [][\A k \in TaskKeys :
          ( /\ tasks[k].pc = "analyzing"
            /\ tasks'[k].pc = "done"
            /\ ~tasks'[k].analysis.parsed
            /\ agents'[k[2]].memory.total_memories
                  = agents[k[2]].memory.total_memories + 1 )
          => /\ ~Truthy(tasks'[k].result)
             /\ tasks'[k].exit = "ok"
             /\ agents'[k[2]].state = "idle"]_vars

\* an agent with an llm has handled a message on which its llm failed: the
\* message is stored, there is no reply and the agent is idle
C13_Witness ==
    \E k \in TaskKeys :
        /\ k[2] \in WithLLM
        /\ tasks[k].pc = "done"
        /\ tasks[k].exit = "ok"
        /\ ~tasks[k].analysis.parsed
        /\ tasks[k].result = None
        /\ agents[k[2]].state = "idle"
        /\ agents[k[2]].memory.total_memories > 0

\* ------------------------------------------------------------------------
\* Claims about faults inside receive_message (checked under SpecFault)
\* ------------------------------------------------------------------------
\* C12: when the receive_message of one character of a broadcast fails
\* (it leaves the agent in error), the map the broadcast returns still has
\* the reply of every other character that completed before the deadline
\* and whose llm returned text.
C12_FaultIsolation ==
    \A b \in Broadcasts :
        bcasts[b].status = "returned" =>
            \A a, other \in bcasts[b].done :
                ( /\ other # a
                  /\ tasks[<<b, a>>].exit = "error"
                  /\ other \in WithLLM
                  /\ tasks[<<b, other>>].exit = "ok"
                  /\ tasks[<<b, other>>].analysis.parsed )
                => RoleName(other) \in DOMAIN bcasts[b].responses

\* C14: a receive_message in which storage raises returns no reply and the
\* agent is in error when it returns; a receive_message on an agent in error
\* is processed like any other (its context is updated), and one that returns
\* without a fault has stored its message and leaves the agent idle.
C14_ErrorThenRecovery ==
    [][\A k \in TaskKeys :
          /\ ( /\ tasks[k].pc \in {"created", "woken", "analyzing"}
               /\ tasks'[k].pc = "done"
               /\ tasks'[k].exit = "error" )
             => /\ tasks'[k].result = None
                /\ agents'[k[2]].state = "error"
                /\ agents'[k[2]].memory.total_memories
                      = agents[k[2]].memory.total_memories
          /\ ( /\ tasks[k].pc \in {"created", "woken"}
               /\ tasks'[k].pc \in {"analyzing", "done"}
               /\ agents[k[2]].state = "error" )
             => /\ tasks'[k].exit # "stopped"
                /\ agents'[k[2]].context.conversation_depth
                      = agents[k[2]].context.conversation_depth + 1
          /\ ( /\ tasks[k].pc \in {"created", "woken", "analyzing"}
               /\ tasks'[k].pc = "done"
               /\ tasks'[k].exit = "ok" )
             => /\ agents'[k[2]].state = "idle"
                /\ agents'[k[2]].memory.total_memories
                      = agents[k[2]].memory.total_memories + 1]_vars

\* an agent whose receive_message failed has handled the next message
\* without a fault and is idle again
C14_Witness ==
    \E a \in AgentIds :
        \E i \in DOMAIN entered[a] :
            /\ i + 1 \in DOMAIN entered[a]
            /\ tasks[<<entered[a][i], a>>].exit = "error"
            /\ tasks[<<entered[a][i + 1], a>>].exit = "ok"
            /\ agents[a].state = "idle"
            /\ agents[a].memory.working_memory # <<>>

\* ------------------------------------------------------------------------
\* Claims about the fan-out and the history of a broadcast (checked under Spec)
\* ------------------------------------------------------------------------
\* how many times broadcast b was handed to receive_message of agent a
Invocations(a, b) == Cardinality({i \in DOMAIN arrival[a] : arrival[a][i] = b})

\* C16: a broadcast invokes receive_message exactly once on every character
\* that is not the sender of the message and, when the message names a
\* receiver, is that receiver, and on nobody else.
C16_OneReceivePerEligible ==
    \A b \in Broadcasts : \A a \in AgentIds :
        bcasts[b].status # "none" =>
            LET named == messages[b].receiver = None
                            \/ messages[b].receiver = RoleName(a)
                eligible == /\ characters[RoleName(a)] = a
                            /\ RoleName(a) # messages[b].sender
                            /\ named
            IN /\ tasks[<<b, a>>].pc # "none" <=> eligible
               /\ Invocations(a, b) =
                     IF tasks[<<b, a>>].pc \in {"none", "created"} THEN 0 ELSE 1

\* a message sent by A to everyone was received by B and not by A, and a
\* message for A alone was received by A and not by B
C16_Witness ==
    \E b1, b2 \in Broadcasts :
        /\ bcasts[b1].status = "returned"
        /\ bcasts[b2].status = "returned"
        /\ messages[b1].sender = "A"
        /\ Invocations("a2", b1) = 1
        /\ Invocations("a1", b1) = 0
        /\ messages[b2].receiver = "A"
        /\ Invocations("a1", b2) = 1
        /\ Invocations("a2", b2) = 0

\* the broadcast_dialogue calls made so far; the b-th call broadcasts message b
Called == {b \in Broadcasts : bcasts[b].status # "none"}

Min(x, y) == IF x < y THEN x ELSE y

\* C17: after k broadcast_dialogue calls the history holds the messages of
\* the last min(k, dialogue_history_limit) calls, each once, in call order,
\* so it is never longer than dialogue_history_limit.
C17_BoundedHistory ==
    LET k == Cardinality(Called)
        n == Min(k, config.dialogue_history_limit)
    IN /\ Len(dialogue_history) = n
       /\ \A i \in 1 .. n : dialogue_history[i] = k - n + i
       /\ Len(dialogue_history) <= config.dialogue_history_limit

\* more calls than the limit have been made and the oldest message is gone
C17_Witness ==
    /\ Cardinality(Called) > config.dialogue_history_limit
    /\ Len(dialogue_history) = config.dialogue_history_limit
    /\ 1 \notin Range(dialogue_history)
    /\ dialogue_history[Len(dialogue_history)] = Cardinality(Called)

\* the history holds its messages in the order of their broadcast_dialogue calls
InCallOrder(history) ==
    \A i, j \in DOMAIN history : i < j => history[i] < history[j]

\* C18 as stated: when a character's receive_message for a broadcast starts,
\* the broadcast's message is in the dialogue history, and the history appends
\* follow the order of the calls, also for overlapping broadcasts.
C18_InHistoryAtReceive ==
    [][/\ \A k \in TaskKeys :
             (tasks[k].pc = "created" /\ tasks'[k].pc # "created")
             => k[1] \in Range(dialogue_history)
       /\ InCallOrder(dialogue_history')]_vars

\* C18 amended: when a character's receive_message for a broadcast starts, the
\* broadcast's message has been appended to the dialogue history; it is still
\* there unless dialogue_history_limit or more broadcast_dialogue calls were
\* made after it.  The history appends follow the order of the calls, also
\* for overlapping broadcasts.
C18_AppendedBeforeReceive ==
    [][/\ \A k \in TaskKeys :
             (tasks[k].pc = "created" /\ tasks'[k].pc # "created")
             => /\ k[1] \in Called
                /\ k[1] \in Range(dialogue_history)
                      <=> Cardinality(Called) - k[1] < config.dialogue_history_limit
       /\ InCallOrder(dialogue_history')
       /\ dialogue_history' # dialogue_history
             => dialogue_history'[Len(dialogue_history')] = Cardinality(Called) + 1]_vars

\* three broadcasts overlap; the receive_message of the first has run after
\* its message was pushed out of the history by the two later ones
C18_Witness ==
    /\ \A b \in 1 .. 3 : bcasts[b].status = "waiting"
    /\ dialogue_history = <<2, 3>>
    /\ \E a \in AgentIds : tasks[<<1, a>>].pc \in {"analyzing", "done"}
    /\ \A k \in TaskKeys : k[1] > 1 => tasks[k].pc \in {"none", "created"}

\* ------------------------------------------------------------------------
\* Claims about the cast of a scene (checked under SpecCast)
\* ------------------------------------------------------------------------
\* C15: under every config, add_character returns False and leaves the
\* participant map as it was when the scene is full or has a participant of
\* that name; otherwise it inserts the agent under its role name and returns
\* True.  It never raises.
C15_AddCharacter ==
    lastCall.op = "add_character" =>
        IF \/ CharacterCount(lastCall.before) >= config.max_characters
           \/ lastCall.before[lastCall.name] # None
        THEN /\ lastCall.result = "False"
             /\ characters = lastCall.before
        ELSE /\ lastCall.result = "True"
             /\ characters = [lastCall.before EXCEPT ![lastCall.name] = lastCall.agent]

\* ------------------------------------------------------------------------
\* Claims about consolidation in the stand-alone store (checked under SpecMem)
\* ------------------------------------------------------------------------
\* the last add_message call ran _consolidate_memories
Consolidated ==
    /\ lastAdd.op = "add"
    /\ store.consolidation_count = lastAdd.before.consolidation_count + 1

\* short_term as _consolidate_memories found it in the last call: the old
\* short_term followed by the working items moved behind it
Consolidating == lastAdd.before.short_term \o lastAdd.before.working_memory

\* what the last consolidation appended to long_term
Promoted == Drop(store.long_term, Len(lastAdd.before.long_term))

\* x is ranked before y by the weighted score, ties by the original order
RankedBefore(x, y) ==
    \/ Score(x) > Score(y)
    \/ /\ Score(x) = Score(y)
       /\ Position(Consolidating, x) < Position(Consolidating, y)

\* C21: a consolidation over n short-term items promotes to long_term exactly
\* the floor(n/2) items of highest weighted score, drops the other
\* n - floor(n/2) from the store, adds that number to forgotten_memories and
\* increments consolidation_count by 1.
C21_PromotesHalf ==
    Consolidated =>
        LET n == Len(Consolidating)
            promoted == Range(Promoted)
            dropped == Range(Consolidating) \ promoted
        IN /\ Len(Promoted) = n \div 2
           /\ Cardinality(promoted) = n \div 2
           /\ promoted \subseteq Range(Consolidating)
           /\ \A p \in promoted, q \in dropped : Score(p) >= Score(q)
           /\ {q.memory_id : q \in dropped} \cap TierIds(store) = {}
           /\ store.forgotten_memories =
                 lastAdd.before.forgotten_memories + (n - n \div 2)
           /\ store.consolidation_count = lastAdd.before.consolidation_count + 1

\* C22: total_memories equals the number of distinct items held in the three
\* tiers plus forgotten_memories.
C22_Conservation ==
    store.total_memories = Cardinality(TierIds(store)) + store.forgotten_memories

\* C23: consolidation ranks by weighted score and, among items of equal
\* score, by their original order: every promoted item is ranked before every
\* item that is not promoted, and the promoted items are appended to
\* long_term in rank order.
C23_StableRanking ==
    Consolidated =>
        /\ Range(Promoted) \subseteq Range(Consolidating)
        /\ \A p \in Range(Promoted) :
              \A q \in Range(Consolidating) \ Range(Promoted) : RankedBefore(p, q)
        /\ \A i, j \in DOMAIN Promoted :
              i < j => RankedBefore(Promoted[i], Promoted[j])

\* a consolidation promoted one of two equally scored items and dropped the
\* other, and promoted two items
C23_Witness ==
    /\ Consolidated
    /\ Len(Promoted) = 2
    /\ \E p \in Range(Promoted) :
          \E q \in Range(Consolidating) \ Range(Promoted) : Score(p) = Score(q)

\* C26: an add below the threshold appends the item to working_memory when
\* there is room; otherwise the working items go, in their order, to the end
\* of short_term (which is consolidated if that takes it over
\* short_term_limit) and the new item is the only item of working_memory.
C26_BelowThreshold ==
    (lastAdd.op = "add" /\ lastAdd.importance < store.importance_threshold) =>
        LET before == lastAdd.before
            new == store.working_memory[Len(store.working_memory)]
        IN /\ ~lastAdd.raised
           /\ store.working_memory # <<>>
           /\ new.memory_id \notin before.memory_map
           /\ new.importance = lastAdd.importance
           /\ store.long_term # before.long_term => Consolidated
           /\ IF Len(before.working_memory) < before.working_memory_limit
              THEN /\ store.working_memory = Append(before.working_memory, new)
                   /\ store.short_term = before.short_term
                   /\ store.consolidation_count = before.consolidation_count
              ELSE /\ store.working_memory = <<new>>
                   /\ IF Len(Consolidating) <= store.short_term_limit
                      THEN /\ store.short_term = Consolidating
                           /\ store.consolidation_count = before.consolidation_count
                      ELSE Consolidated

\* a full working tier of two items was moved behind a non-empty short_term
\* without a consolidation
C26_Witness ==
    /\ lastAdd.op = "add"
    /\ lastAdd.importance < store.importance_threshold
    /\ Len(lastAdd.before.working_memory) = 2
    /\ store.working_memory_limit = 2
    /\ lastAdd.before.short_term # <<>>
    /\ store.short_term = Consolidating
    /\ Len(store.working_memory) = 1

\* C24: the store offers get_recent_context(n): it returns the messages of
\* the n most recently inserted items of the three tiers, oldest first, at
\* most n of them, and the empty sequence when n <= 0.
C24_Recent ==
    \A n \in 0 .. 3 :
        LET items == TierItems(store)
            recent == {x \in items :
                         Cardinality({y \in items : y.memory_id > x.memory_id}) < n}
            expected == [k \in 1 .. Cardinality(recent) |->
                           (CHOOSE x \in recent :
                               Cardinality({y \in recent : y.memory_id < x.memory_id})
                                  = k - 1).content]
            r == GetRecentContext(store, n)
        IN /\ ~r.raised
           /\ Len(r.value) <= n
           /\ r.value = expected

\* ------------------------------------------------------------------------
\* Claims about replies (checked under Spec)
\* ------------------------------------------------------------------------
\* C25: when a receive_message whose llm returns text completes, it returns
\* that text and has added two items to the agent's memory: the inbound
\* message and then the reply, whose sender is the agent's name, whose
\* receiver is the inbound sender and whose importance is 0.9 times the
\* inbound importance; total_memories has grown by 2.
C25_ReplyStored ==
    [][\A b \in Broadcasts, a \in WithLLM :
          ( /\ tasks[<<b, a>>].pc = "analyzing"
            /\ tasks'[<<b, a>>].pc = "done"
            /\ tasks'[<<b, a>>].exit = "ok"
            /\ tasks'[<<b, a>>].analysis.parsed )
          => LET m == agents'[a].memory
                 inbound == CHOOSE x \in TierItems(m) : x.memory_id = m.created - 1
                 reply == CHOOSE x \in TierItems(m) : x.memory_id = m.created
             IN /\ tasks'[<<b, a>>].result = "reply"
                /\ m.total_memories = agents[a].memory.total_memories + 2
                /\ m.created = agents[a].memory.created + 2
                /\ inbound.content = b
                /\ reply.metadata.sender = RoleName(a)
                /\ reply.metadata.receiver = messages[b].sender
                /\ reply.importance = (inbound.importance * 9) \div 10
      ]_vars

\* ------------------------------------------------------------------------
\* Claims about the scene's shared state (checked under SpecStage)
\* ------------------------------------------------------------------------
\* broadcast b has started its fan-out and has not returned
Outstanding(b) == bcasts[b].status \in {"waiting", "cancelling"}

\* C27 as stated: while the fan-out of a broadcast is outstanding, neither
\* the dialogue history nor the participant map changes.
C27_FrozenDuringFanOut ==
    [][\A b \in Broadcasts :
          (Outstanding(b) /\ bcasts'[b].status \in {"waiting", "cancelling"})
          => /\ dialogue_history' = dialogue_history
             /\ characters' = characters
      ]_vars

\* C27, amended: the history and the participant map change only in the
\* scene's own synchronous steps, never in a step of a fan-out task.  The
\* history changes only by the append that opens a broadcast_dialogue call,
\* before any task of that call has run; the participant map changes only in
\* an add_character or remove_character call, and not in one that returns
\* False.  Such steps of other calls may fall between a broadcast's fan-out
\* start and its return.
C27_OnlySynchronousSteps ==
    [][/\ dialogue_history' # dialogue_history =>
             \E b \in Broadcasts :
                /\ bcasts[b].status = "none"
                /\ bcasts'[b].status # "none"
                /\ dialogue_history' # <<>>
                /\ dialogue_history'[Len(dialogue_history')] = b
                /\ \A k \in TaskKeys :
                      IF k[1] = b THEN tasks'[k].pc \in {"none", "created"}
                      ELSE tasks'[k] = tasks[k]
                /\ agents' = agents
                /\ characters' = characters
       /\ characters' # characters =>
             /\ lastCall'.op \in {"add_character", "remove_character"}
             /\ lastCall'.before = characters
             /\ lastCall'.result # "False"
             /\ \A n \in Names \ {lastCall'.name} : characters'[n] = characters[n]
             /\ tasks' = tasks
             /\ agents' = agents
             /\ bcasts' = bcasts
             /\ dialogue_history' = dialogue_history
      ]_vars

\* a character was removed, and a second broadcast appended to the history,
\* while the first broadcast's fan-out was still outstanding
C27_Witness ==
    /\ Outstanding(1)
    /\ \E a \in bcasts[1].targets : characters[RoleName(a)] = None
    /\ lastCall.op = "remove_character"
    /\ bcasts[2].status # "none"
    /\ dialogue_history = <<1, 2>>

\* ------------------------------------------------------------------------
\* Claims about the agent's lock (checked under SpecQueue)
\* ------------------------------------------------------------------------
\* the invocations that wait for an agent's lock, woken or not
Queued == {k \in TaskKeys : tasks[k].pc \in {"waiting", "woken"}}

\* C28: the lock of an agent is held exactly while one of its
\* receive_message invocations is inside, whichever way the others left
\* (return, Stopped rejection, fault, cancellation), and every invocation
\* queued for the lock leaves the queue, to enter receive_message or
\* cancelled by its broadcast: again and again no invocation is queued.
C28_QueuedEventuallyEnters ==
    /\ [](\A a \in AgentIds : agents[a].locked <=> InSection(a) # {})
    /\ []<>(Queued = {})

\* the first invocation held the lock and was cancelled at the deadline, the
\* second entered and returned, and the third, queued behind it, was woken
C28_Witness ==
    /\ entered["a1"] = <<1, 2>>
    /\ tasks[<<1, "a1">>].exit = "cancelled"
    /\ tasks[<<2, "a1">>].exit = "ok"
    /\ tasks[<<3, "a1">>].pc = "woken"
    /\ ~agents["a1"].locked

C31_RollingContext ==
    [][\A a \in AgentIds :
          ( /\ Len(entered'[a]) = Len(entered[a]) + 1
            /\ tasks'[<<entered'[a][Len(entered'[a])], a>>].exit # "stopped"
            /\ messages[entered'[a][Len(entered'[a])]].sender # RoleName(a) )
          => LET sender == messages[entered'[a][Len(entered'[a])]].sender
                 old == agents[a].context
                 new == agents'[a].context
             IN /\ new.last_speaker = sender
                /\ new.interaction_count[sender] = old.interaction_count[sender] + 1
                /\ new.conversation_depth =
                      IF old.last_speaker = sender
                      THEN old.conversation_depth + 1
                      ELSE 1
      ]_vars

\* ------------------------------------------------------------------------
\* Claims about reading the dialogue history (checked under Spec)
\* ------------------------------------------------------------------------
\* C32: get_dialogue_history(limit, participant) returns, in history order,
\* the messages whose sender or receiver is the participant (all messages
\* without a participant), and when a limit is given only the most recent
\* limit of them, so at most limit messages.
C32_DialogueHistory ==
    \A limit \in HistoryLimits, p \in Senders \cup {None} :
        LET r == GetDialogueHistory(dialogue_history, limit, p)
            match == {i \in DOMAIN dialogue_history :
                         \/ p = None
                         \/ messages[dialogue_history[i]].sender = p
                         \/ messages[dialogue_history[i]].receiver = p}
            kept == IF limit = NoLimit THEN match
                    ELSE {i \in match : Cardinality({j \in match : j > i}) < limit}
        IN /\ limit # NoLimit => Len(r) <= limit
           /\ Len(r) = Cardinality(kept)
           /\ \A n \in DOMAIN r :
                 \E i \in kept : /\ r[n] = dialogue_history[i]
                                 /\ Cardinality({j \in kept : j < i}) = n - 1

\* ------------------------------------------------------------------------
\* Claims about scoring (checked under SpecScore)
\* ------------------------------------------------------------------------
\* C33: the importance of the item that receive_message stores for an inbound
\* message is within [0.1, 1.0]; when no emotion analysis was used (no llm,
\* or the analysis gave nothing) it is 0.5 plus the priority, type and
\* direct-address adjustments, brought into that range.
C33_ImportanceInRange ==
    lastAdd.op = "receive" =>
        LET item == CHOOSE x \in TierItems(store) : x.memory_id = store.created
            message == lastAdd.message
            raw == 50
                   + (CASE message.priority = "LOW" -> 0 - 10
                        [] message.priority = "NORMAL" -> 0
                        [] message.priority = "HIGH" -> 20
                        [] message.priority = "URGENT" -> 30)
                   + (CASE message.type = "emotion" -> 15
                        [] message.type \in {"action", "thought"} -> 10
                        [] message.type = "system" -> 20
                        [] OTHER -> 0)
                   + (IF message.receiver = RoleName(lastAdd.agent) THEN 20 ELSE 0)
        IN /\ ~lastAdd.raised
           /\ item.content = message.message_id
           /\ item.importance >= 10
           /\ item.importance <= 100
           /\ (lastAdd.agent \notin WithLLM \/ ~lastAdd.analysis.parsed) =>
                 item.importance = (IF raw > 100 THEN 100 ELSE raw)

\* an agent with an llm stored an URGENT system message addressed to it,
\* scored with an intensity of 3.0, at importance 1.0, and one with the
\* intensity -2.0 a LOW chat message at 0.1
C33_Witness ==
    /\ lastAdd.op = "receive"
    /\ lastAdd.agent \in WithLLM
    /\ lastAdd.analysis.parsed
    /\ \/ /\ lastAdd.analysis.intensity = 300
          /\ lastAdd.message.priority = "URGENT"
          /\ lastAdd.message.receiver = RoleName(lastAdd.agent)
          /\ \E x \in TierItems(store) : x.importance = 100
       \/ /\ lastAdd.analysis.intensity = 0 - 200
          /\ lastAdd.message.priority = "LOW"
          /\ \E x \in TierItems(store) : x.importance = 10

\* ------------------------------------------------------------------------
\* Claims about failed adds and memory_map (checked under SpecMem)
\* ------------------------------------------------------------------------
\* C34: an add_message call that raises leaves the tiers, the indices,
\* memory_map and the statistics as they were before the call.
C34_FailedAddChangesNothing ==
    (lastAdd.op = "add" /\ lastAdd.raised) =>
        LET before == lastAdd.before
        IN /\ store.working_memory = before.working_memory
           /\ store.short_term = before.short_term
           /\ store.long_term = before.long_term
           /\ store.keyword_index = before.keyword_index
           /\ store.temporal_index = before.temporal_index
           /\ store.type_index = before.type_index
           /\ store.memory_map = before.memory_map
           /\ store.total_memories = before.total_memories
           /\ store.forgotten_memories = before.forgotten_memories
           /\ store.consolidation_count = before.consolidation_count
           /\ store.memory_types = before.memory_types

\* C38: memory_map holds exactly the items held by some tier, so it never
\* has more than working_memory_limit + short_term_limit + long_term_limit
\* entries.
C38_MemoryMapIsTiers ==
    /\ store.memory_map = TierIds(store)
    /\ Cardinality(store.memory_map) <=
          store.working_memory_limit + store.short_term_limit + store.long_term_limit

BroadcastSyncCall(cfg, chars, message) ==
    LET eligible == Eligible(chars, message)
    IN [targets   |-> eligible,
        received  |-> {},
        responses |-> EmptyMap,
        result    |-> IF eligible # {} /\ Logger(cfg) = Raised THEN Raised ELSE "{}"]

\* Scene.broadcast_dialogue with enable_async = False, called with input as
\* the b-th call: the whole call is one step, nothing in it awaits.
BroadcastSyncMessage(b, input) ==
    /\ ~config.enable_async
    /\ bcasts[b].status = "none"
    /\ IF b = 1 THEN TRUE ELSE bcasts[b - 1].status # "none"
    /\ LET message == [input EXCEPT !.message_id = b, !.thread_id = b]
           ev == TriggerEvent(config, event_handlers, "dialogue_broadcast")
           r == BroadcastSyncCall(config, characters, message)
       IN /\ messages' = (b :> message) @@ messages
          /\ handled' = ev.called
          /\ dialogue_history' = AddToHistory(dialogue_history, b)
          /\ bcasts' = [bcasts EXCEPT ![b] =
                          [NoBcast EXCEPT !.status = "returned",
                                          !.targets = r.targets,
                                          !.responses = r.responses]]
          /\ lastCall' = [op |-> "broadcast_dialogue", call |-> b,
                          received |-> r.received, result |-> r.result,
                          before |-> characters]
    /\ UNCHANGED <<characters, agents, tasks, arrival, entered, stops, config,
                   event_handlers>>
    /\ UNCHANGED memVars

BroadcastSync(b) == \E input \in BroadcastInputs : BroadcastSyncMessage(b, input)

\* The scene is constructed with enable_async = False, with or without
\* logging, for one or two characters; the agents join and leave.
SyncConfigs ==
    {[SceneConfig EXCEPT !.enable_async = FALSE, !.max_characters = m,
                         !.enable_logging = l] : m \in {1, 2}, l \in BOOLEAN}

InitSync ==
    /\ store = AgentMemory
    /\ lastAdd = NoAdd
    /\ \E cfg \in SyncConfigs : InitScene(NoCharacters, cfg)

NextSync ==
    \/ \E b \in Broadcasts : BroadcastSync(b)
    \/ \E a \in AgentIds : AddCharacter(a)
    \/ \E n \in Names : RemoveCharacter(n)

SpecSync == InitSync /\ [][NextSync]_vars

\* ------------------------------------------------------------------------
\* The scene with event handlers
\* ------------------------------------------------------------------------
\* Scene.add_event_handler
AddEventHandler(event, handler) ==
    /\ Len(event_handlers[event]) < MaxHandlers
    /\ event_handlers' = [event_handlers EXCEPT ![event] = Append(@, handler)]
    /\ UNCHANGED <<characters, dialogue_history, messages, agents, tasks, bcasts,
                   arrival, entered, stops, config, lastCall, handled>>
    /\ UNCHANGED memVars

\* The events handlers are registered for here.
Watched == {"character_joined", "dialogue_broadcast"}

EventInputs == { Message(0, "User", None, "chat", "NORMAL", {}) }

BroadcastWatched(b) == \E input \in EventInputs : BroadcastMessage(b, input)

\* The agent that joins here: the one without an llm, whose receive_message
\* never suspends, so that no deadline can expire.
Joining == {"a2"}

\* The scene is constructed empty, with or without logging.
EventConfigs == {[SceneConfig EXCEPT !.enable_logging = l] : l \in BOOLEAN}

InitEvents ==
    /\ store = AgentMemory
    /\ lastAdd = NoAdd
    /\ \E cfg \in EventConfigs : InitScene(NoCharacters, cfg)

NextEvents ==
    \/ \E e \in Watched, h \in Handlers : AddEventHandler(e, h)
    \/ \E a \in Joining : AddCharacter(a)
    \/ \E b \in Broadcasts : BroadcastWatched(b)
    \/ \E b \in Broadcasts, a \in AgentIds : TaskStart(b, a)
    \/ \E b \in Broadcasts : AllDone(b)

SpecEvents == InitEvents /\ [][NextEvents]_vars

\* ------------------------------------------------------------------------
\* Claims about what a broadcast leaves behind (checked under SpecQueue)
\* ------------------------------------------------------------------------
\* broadcast b returns in this step while no other broadcast is in progress
ReturnsAlone(b) ==
    /\ bcasts[b].status # "returned"
    /\ bcasts'[b].status = "returned"
    /\ \A c \in Broadcasts \ {b} : bcasts'[c].status \in {"none", "returned"}

C36_SyncDelivers ==
    [][\A b \in Broadcasts :
          (bcasts[b].status = "none" /\ bcasts'[b].status = "returned")
          => /\ lastCall'.result = "{}"
             /\ bcasts'[b].responses = EmptyMap
             /\ \A a \in Eligible(characters, messages'[b]) :
                   /\ a \in lastCall'.received
                   /\ agents'[a].memory.total_memories
                         = agents[a].memory.total_memories + 1
      ]_vars

\* C37: whatever add_character, remove_character and broadcast calls were
\* made, the participant map holds at most max_characters agents, each under
\* its own role name; and a remove_character call just made returned True
\* with the entry removed when the name was present, False with the map
\* unchanged when it was not.
C37_CastKept ==
    /\ CharacterCount(characters) <= config.max_characters
    /\ \A n \in Names : characters[n] # None => RoleName(characters[n]) = n
    /\ lastCall.op = "remove_character" =>
          IF lastCall.before[lastCall.name] # None
          THEN /\ lastCall.result = "True"
               /\ characters = [lastCall.before EXCEPT ![lastCall.name] = None]
          ELSE /\ lastCall.result = "False"
               /\ characters = lastCall.before

====
